---- MODULE Spec2Model ----
(***************************************************************************)
(* Model of resume-screening/app.py: the Dash callback analyze_resumes,    *)
(* the scorer compute_similarity, and the upload directory shared by all   *)
(* callback invocations of the process.                                    *)
(*                                                                         *)
(* Scores are fixed-point integers in hundredths of a percent (91.0 is     *)
(* 9100); cosine similarities are integers in units of 10^-5.              *)
(* An upload string is the sequence of its comma-separated segments; the   *)
(* base64 segment is a record saying whether b64decode accepts it and      *)
(* which bytes it decodes to.                                              *)
(***************************************************************************)
EXTENDS Integers, Sequences, FiniteSets, TLC

\* Longest upload list of one request in the single-request specification.
MaxDocs == 2

\* Flask's development server runs each callback invocation in its own thread.
Threads == {1, 2}

\* os.path.join(UPLOAD_DIR, filename): one path per uploaded file name.
Filenames == {"a.pdf", "b.pdf"}

----------------------------------------------------------------------------
(* Values *)

\* File contents: "junk" is not a PDF, "" is a file truncated by open(.., "wb").
PdfFiles == {"pdfA", "pdfB", "pdfC", "pdfD"}
EmptyFile == ""

B64(ok, bytes) == [valid |-> ok, bytes |-> bytes]
DataUrl(bytes) == << "data:application/pdf;base64", B64(TRUE, bytes) >>

\* The upload strings a browser can hand to the callback.
NoComma == << "data:application/pdf;base64" >>
BadPadding == << "data:application/pdf;base64", B64(FALSE, "junk") >>
Contents == {NoComma, BadPadding, DataUrl("junk")} \cup {DataUrl(b) : b \in PdfFiles}

\* Python's None for the two optional inputs.
None == [isNone |-> TRUE, v |-> << >>]
Some(x) == [isNone |-> FALSE, v |-> x]

\* Job descriptions as character sequences: empty, whitespace-only, real.
JobDescTexts == { << >>, << " " >>, << "d", "e", "v" >> }

Ok(v) == [ok |-> TRUE, val |-> v, err |-> ""]
Raise(e) == [ok |-> FALSE, val |-> "", err |-> e]

Min(a, b) == IF a < b THEN a ELSE b

----------------------------------------------------------------------------
(* compute_similarity *)

\* model.encode + util.cos_sim: the cosine (units of 10^-5) of the E5
\* embeddings of "passage: <text>" and "query: <jd>"; a fixed, deterministic
\* function of the two texts.
CosSim(text, jd) ==
    IF jd = << " " >>
    THEN CASE text = "textA" -> 74994
           [] text = "textB" -> 49994
           [] text = "textC" -> 4
           [] OTHER          -> 100000
    ELSE CASE text = "textA" -> 91004
           [] text = "textB" -> 75000
           [] text = "textC" -> 50000
           [] OTHER          -> 0 - 1234

\* round(x, 2) of x = cos * 100.0, on the fixed-point value: nearest
\* hundredth, exact ties to the even neighbour.
Round2(cos) ==
    LET q == cos \div 10
        r == cos % 10
    IN  IF r < 5 THEN q
        ELSE IF r > 5 THEN q + 1
        ELSE IF q % 2 = 0 THEN q ELSE q + 1

compute_similarity(resume_text, job_desc) == Round2(CosSim(resume_text, job_desc))

----------------------------------------------------------------------------
(* Helpers of analyze_resumes *)

\* Python truthiness of an optional string or list: None and empty are falsy.
Truthy(x) == ~x.isNone /\ Len(x.v) > 0

\* _, content_string = content.split(','): exactly two segments or ValueError.
SplitContent(content) ==
    IF Len(content) = 2 THEN Ok(content[2])
    ELSE IF Len(content) < 2
         THEN Raise("not enough values to unpack (expected 2, got 1)")
         ELSE Raise("too many values to unpack (expected 2)")

\* base64.b64decode(content_string)
b64decode(content_string) ==
    IF content_string.valid THEN Ok(content_string.bytes)
    ELSE Raise("Incorrect padding")

\* Lines 156-157: the bytes of an upload string, or the exception raised.
DecodeContent(content) ==
    LET s == SplitContent(content)
    IN  IF s.ok THEN b64decode(s.val) ELSE s

\* open(file_path, "wb"): creates the file or truncates it to zero length.
OpenTruncate(files, path) ==
    [f \in (DOMAIN files) \cup {path} |-> IF f = path THEN EmptyFile ELSE files[f]]

\* Variant of WriteFile: every upload is written to one fixed scratch name.
WriteFileFixedName(files, path, bytes) ==
    [f \in (DOMAIN files) \cup {"a.pdf"} |-> IF f = "a.pdf" THEN bytes ELSE files[f]]

\* f.write(decoded) and the close at the end of the with block.
WriteFile(files, path, bytes) ==
    [f \in (DOMAIN files) \cup {path} |-> IF f = path THEN bytes ELSE files[f]]

\* The text pdfplumber finds on the pages of a PDF file.
PdfText(bytes) ==
    CASE bytes = "pdfA" -> "textA"
      [] bytes = "pdfB" -> "textB"
      [] bytes = "pdfC" -> "textC"
      [] OTHER          -> "textD"

\* extract_text_from_pdf(file_path): reads whatever the path holds now.
extract_text_from_pdf(files, path) ==
    IF path \notin DOMAIN files THEN Raise("[Errno 2] No such file or directory")
    ELSE IF files[path] \notin PdfFiles
         THEN Raise("No /Root object! - Is this really a PDF?")
         ELSE Ok(PdfText(files[path]))

\* Named thresholds of the recommendation, in hundredths of a percent.
StrongMin == 7500
ModerateMin == 5000

Tiers == {"Strong Fit", "Moderate Fit", "Poor Fit"}

\* Variant of Recommendation: exclusive lower bounds.
RecommendationExclusive(score) ==
    IF score > StrongMin THEN "Strong Fit"
    ELSE IF score > ModerateMin THEN "Moderate Fit"
    ELSE "Poor Fit"

\* Lines 166-170: the recommendation of a score.
Recommendation(score) ==
    IF score >= StrongMin THEN "Strong Fit"
    ELSE IF score >= ModerateMin THEN "Moderate Fit"
    ELSE "Poor Fit"

Row(filename, score, recommendation) ==
    [Resume |-> filename, Score |-> score, Recommendation |-> recommendation]

\* Lines 172-176: the row of a scored resume.
ScoredRow(filename, score) == Row(filename, score, Recommendation(score))

\* Lines 178-180: the row of a resume whose processing raised e.
ErrorRow(filename, e) == Row(filename, 0, "Error: " \o e)

\* Variant of AppendRow: rows keyed by file name, a later row of the same
\* name replaces the earlier one.
AppendRowByName(rows, row) ==
    IF \E i \in 1..Len(rows) : rows[i].Resume = row.Resume
    THEN [i \in 1..Len(rows) |-> IF rows[i].Resume = row.Resume THEN row ELSE rows[i]]
    ELSE Append(rows, row)

\* results.append(..) in the try body and in the except clause.
AppendRow(rows, row) == Append(rows, row)

\* for content, filename in zip(contents, filenames)
ZipLen(contents, filenames) == Min(Len(contents), Len(filenames))

\* The row orders sort_values("Match Score (%)", ascending=False) may
\* return. Its default kind is quicksort, which pandas documents as not
\* stable: any order with non-increasing scores can come out.
Descending(rows) == \A i \in 1..(Len(rows) - 1) : rows[i].Score >= rows[i + 1].Score

Perms(n) == {p \in [1..n -> 1..n] : \A i, j \in 1..n : p[i] = p[j] => i = j}

SortValues(rows) ==
    {[i \in 1..Len(rows) |-> rows[p[i]]] : p \in {q \in Perms(Len(rows)) :
        Descending([i \in 1..Len(rows) |-> rows[q[i]]])}}

\* Variant of TopScore: reads the last row (df.iloc[-1]).
LastScore(frame) == frame[Len(frame)].Score

\* df.iloc[0]["Match Score (%)"] and len(df)
TopScore(frame) == frame[1].Score
Count(frame) == Len(frame)

----------------------------------------------------------------------------
(* State *)

VARIABLES
    pc,           \* per thread: position of its callback invocation
    req,          \* per thread: n_clicks, contents, filenames, job_desc
    idx,          \* per thread: position of the for loop in the zipped lists
    decoded,      \* per thread: the local variable decoded
    results,      \* per thread: the list results
    df,           \* per thread: the sorted frame
    response,     \* per thread: what the callback returned
    fs,           \* the files under UPLOAD_DIR, shared by all threads
    encodeCalls   \* per thread: model.encode calls of this invocation

vars == << pc, req, idx, decoded, results, df, response, fs, encodeCalls >>

NoResponse == [kind |-> "none", top_score |-> 0, count |-> 0]
NoCalls == [jd |-> 0, rs |-> 0]

\* The call Dash makes when the page loads: nothing clicked, nothing set.
InitialCall == [n_clicks |-> 0, contents |-> None, filenames |-> None, job_desc |-> None]

SeqsOfLen(S, k) == [1..k -> S]

\* The Upload component delivers contents and filenames as lists of equal
\* length, or None for both when nothing was uploaded.
Uploads(S, names, n) ==
    {[contents |-> None, filenames |-> None]} \cup
    UNION {{[contents |-> Some(c), filenames |-> Some(f)] :
              c \in SeqsOfLen(S, k), f \in SeqsOfLen(names, k)} : k \in 0..n}

Clicks(S, names, n, jds) ==
    {[n_clicks |-> 1, contents |-> u.contents, filenames |-> u.filenames, job_desc |-> j] :
        u \in Uploads(S, names, n), j \in jds}

Requests == {InitialCall} \cup Clicks(Contents, Filenames, MaxDocs, {None} \cup {Some(j) : j \in JobDescTexts})

\* Two users uploading one-file batches at the same time.
ConcRequests ==
    Clicks({DataUrl("pdfA"), DataUrl("pdfB")}, Filenames, 1, {Some(<< "d", "e", "v" >>)})

Init ==
    /\ pc = [t \in Threads |-> "idle"]
    /\ req = [t \in Threads |-> InitialCall]
    /\ idx = [t \in Threads |-> 1]
    /\ decoded = [t \in Threads |-> EmptyFile]
    /\ results = [t \in Threads |-> << >>]
    /\ df = [t \in Threads |-> << >>]
    /\ response = [t \in Threads |-> NoResponse]
    /\ fs = [f \in {} |-> EmptyFile]
    /\ encodeCalls = [t \in Threads |-> NoCalls]

Content(t) == req[t].contents.v[idx[t]]
Filename(t) == req[t].filenames.v[idx[t]]
NumDocs(t) == ZipLen(req[t].contents.v, req[t].filenames.v)

\* The position after one loop iteration: the next document or the sort.
NextPc(t) == IF idx[t] < NumDocs(t) THEN "decode" ELSE "sort"

----------------------------------------------------------------------------
(* analyze_resumes, one action per step that other threads can observe *)

\* Lines 145-153: the callback is invoked with the inputs r; it returns at
\* once for the page-load call and for a falsy contents or job_desc, and
\* otherwise enters the loop.
Begin(t, R) ==
    /\ pc[t] = "idle"
    /\ \E r \in R :
        /\ req' = [req EXCEPT ![t] = r]
        /\ IF r.n_clicks = 0
           THEN /\ response' = [response EXCEPT ![t] = [NoResponse EXCEPT !.kind = "empty"]]
                /\ pc' = [pc EXCEPT ![t] = "done"]
           ELSE IF ~Truthy(r.contents) \/ ~Truthy(r.job_desc)
           THEN /\ response' = [response EXCEPT ![t] = [NoResponse EXCEPT !.kind = "alert"]]
                /\ pc' = [pc EXCEPT ![t] = "done"]
           ELSE /\ response' = [response EXCEPT ![t] = NoResponse]
                /\ pc' = [pc EXCEPT ![t] =
                        IF ZipLen(r.contents.v, r.filenames.v) > 0 THEN "decode" ELSE "sort"]
    /\ idx' = [idx EXCEPT ![t] = 1]
    /\ decoded' = [decoded EXCEPT ![t] = EmptyFile]
    /\ results' = [results EXCEPT ![t] = << >>]
    /\ df' = [df EXCEPT ![t] = << >>]
    /\ encodeCalls' = [encodeCalls EXCEPT ![t] = NoCalls]
    /\ UNCHANGED fs

\* Lines 156-160: split, b64decode, and open(file_path, "wb"), which
\* truncates the file. An exception goes to the except clause (178-180).
DecodeOpen(t) ==
    /\ pc[t] = "decode"
    /\ LET d == DecodeContent(Content(t))
       IN  IF d.ok
           THEN /\ decoded' = [decoded EXCEPT ![t] = d.val]
                /\ fs' = OpenTruncate(fs, Filename(t))
                /\ pc' = [pc EXCEPT ![t] = "write"]
                /\ UNCHANGED << results, idx >>
           ELSE /\ results' = [results EXCEPT ![t] = AppendRow(@, ErrorRow(Filename(t), d.err))]
                /\ idx' = [idx EXCEPT ![t] = @ + 1]
                /\ pc' = [pc EXCEPT ![t] = NextPc(t)]
                /\ UNCHANGED << decoded, fs >>
    /\ UNCHANGED << req, df, response, encodeCalls >>

\* Line 161: f.write(decoded), then the file is closed.
WriteClose(t) ==
    /\ pc[t] = "write"
    /\ fs' = WriteFile(fs, Filename(t), decoded[t])
    /\ pc' = [pc EXCEPT ![t] = "extract"]
    /\ UNCHANGED << req, idx, decoded, results, df, response, encodeCalls >>

\* Lines 163-180: extract the text of the file now at file_path, score it
\* against the job description (two model.encode calls), classify, append;
\* an exception appends the error row instead.
ExtractScore(t) ==
    /\ pc[t] = "extract"
    /\ LET x == extract_text_from_pdf(fs, Filename(t))
       IN  IF x.ok
           THEN /\ results' = [results EXCEPT ![t] = AppendRow(@,
                        ScoredRow(Filename(t), compute_similarity(x.val, req[t].job_desc.v)))]
                /\ encodeCalls' = [encodeCalls EXCEPT ![t] = [jd |-> @.jd + 1, rs |-> @.rs + 1]]
           ELSE /\ results' = [results EXCEPT ![t] = AppendRow(@, ErrorRow(Filename(t), x.err))]
                /\ UNCHANGED encodeCalls
    /\ idx' = [idx EXCEPT ![t] = @ + 1]
    /\ pc' = [pc EXCEPT ![t] = NextPc(t)]
    /\ UNCHANGED << req, decoded, df, response, fs >>

\* Lines 182-208: sort the frame, read the top score and the count, return.
SortReturn(t) ==
    /\ pc[t] = "sort"
    /\ \E frame \in SortValues(results[t]) :
        /\ df' = [df EXCEPT ![t] = frame]
        /\ response' = [response EXCEPT ![t] =
                [kind |-> "table", top_score |-> TopScore(frame), count |-> Count(frame)]]
    /\ pc' = [pc EXCEPT ![t] = "done"]
    /\ UNCHANGED << req, idx, decoded, results, fs, encodeCalls >>

\* The response is delivered and the invocation's locals are dropped; the
\* files it wrote stay in UPLOAD_DIR.
Finish(t) ==
    /\ pc[t] = "done"
    /\ pc' = [pc EXCEPT ![t] = "idle"]
    /\ req' = [req EXCEPT ![t] = InitialCall]
    /\ idx' = [idx EXCEPT ![t] = 1]
    /\ decoded' = [decoded EXCEPT ![t] = EmptyFile]
    /\ results' = [results EXCEPT ![t] = << >>]
    /\ df' = [df EXCEPT ![t] = << >>]
    /\ response' = [response EXCEPT ![t] = NoResponse]
    /\ encodeCalls' = [encodeCalls EXCEPT ![t] = NoCalls]
    /\ UNCHANGED fs

\* One callback invocation at a time.
Next ==
    \/ Begin(1, Requests)
    \/ DecodeOpen(1)
    \/ WriteClose(1)
    \/ ExtractScore(1)
    \/ SortReturn(1)
    \/ Finish(1)

Spec == Init /\ [][Next]_vars

\* Two invocations in flight, interleaved at every file-system step.
NextConc ==
    \E t \in Threads :
        \/ Begin(t, ConcRequests)
        \/ DecodeOpen(t)
        \/ WriteClose(t)
        \/ ExtractScore(t)
        \/ SortReturn(t)
        \/ Finish(t)

SpecConc == Init /\ [][NextConc]_vars

----------------------------------------------------------------------------
(* Properties *)

Returned(t) == pc[t] = "done"
Accepted(t) == Returned(t) /\ response[t].kind = "table"
Rejected(t) == Returned(t) /\ response[t].kind = "alert"

IsErrorRow(row) == row.Recommendation \notin Tiers
Rows(t) == 1..Len(results[t])

\* What document i of a request yields when only its own upload string and
\* the job description decide: the scored row of its own bytes, or an error.
OwnBytes(r, i) == DecodeContent(r.contents.v[i])
Scorable(r, i) == OwnBytes(r, i).ok /\ OwnBytes(r, i).val \in PdfFiles
OwnScore(r, i) == Round2(CosSim(PdfText(OwnBytes(r, i).val), r.job_desc.v))

\* C1: an accepted request returns exactly one row per submitted document,
\* whichever documents failed: the returned frame is a reordering of the
\* rows built in submission order, one for each uploaded file name.
C1_OneRowPerDocument ==
    \A t \in Threads : Accepted(t) =>
        /\ Len(df[t]) = Len(req[t].contents.v)
        /\ Len(results[t]) = Len(req[t].contents.v)
        /\ \A i \in Rows(t) : results[t][i].Resume = req[t].filenames.v[i]
        /\ \E p \in Perms(Len(df[t])) : df[t] = [i \in 1..Len(df[t]) |-> results[t][p[i]]]

C1_Witness ==
    \E t \in Threads :
        /\ Accepted(t)
        /\ Len(df[t]) >= 2
        /\ df[t][1].Resume = df[t][2].Resume
        /\ \E i \in Rows(t) : IsErrorRow(results[t][i])

\* C2: a document whose own path fails gets score 0 and a non-empty error
\* text, and every other document of the batch gets the score and tier of
\* its own bytes, whatever happened to the documents around it.
C2_FailureIsolated ==
    \A t \in Threads : Accepted(t) =>
        /\ Len(results[t]) = Len(req[t].contents.v)
        /\ \A i \in Rows(t) :
            IF Scorable(req[t], i)
            THEN /\ results[t][i].Score = OwnScore(req[t], i)
                 /\ results[t][i].Recommendation = Recommendation(OwnScore(req[t], i))
            ELSE /\ results[t][i].Score = 0
                 /\ IsErrorRow(results[t][i])
                 /\ results[t][i].Recommendation # ""

C2_Witness ==
    \E t \in Threads :
        /\ Accepted(t)
        /\ Len(results[t]) >= 2
        /\ ~Scorable(req[t], 1) /\ IsErrorRow(results[t][1])
        /\ Scorable(req[t], 2) /\ results[t][2].Score >= StrongMin
        /\ req[t].filenames.v[1] = req[t].filenames.v[2]

Blank(jd) == jd.isNone \/ \A i \in 1..Len(jd.v) : jd.v[i] = " "
NoDocuments(r) == r.contents.isNone \/ Len(r.contents.v) = 0

\* C3: a clicked request with no documents, or with an empty or
\* whitespace-only job description, is rejected as a whole and has made no
\* embedding call.
C3_RejectedBeforeEmbedding ==
    \A t \in Threads :
        (Returned(t) /\ req[t].n_clicks > 0 /\ (NoDocuments(req[t]) \/ Blank(req[t].job_desc)))
            => (Rejected(t) /\ encodeCalls[t] = NoCalls)

\* The one order a stable descending sort gives: higher score first, equal
\* scores in submission order.
StableDescending(rows) ==
    LET p == CHOOSE q \in Perms(Len(rows)) :
                \A i, j \in 1..Len(rows) : i < j =>
                    \/ rows[q[i]].Score > rows[q[j]].Score
                    \/ (rows[q[i]].Score = rows[q[j]].Score /\ q[i] < q[j])
    IN  [i \in 1..Len(rows) |-> rows[p[i]]]

\* C4: the returned rows are in descending score order with equal scores
\* in submission order.
C4_StableDescendingOrder ==
    \A t \in Threads : Accepted(t) => df[t] = StableDescending(results[t])

\* C5: every score of every row lies in [0, 100].
C5_ScoreInRange ==
    \A t \in Threads : \A i \in Rows(t) :
        results[t][i].Score >= 0 /\ results[t][i].Score <= 10000

\* C6: in every returned frame all error rows come after all scored rows.
C6_ErrorsLast ==
    \A t \in Threads : Accepted(t) =>
        \A i, j \in 1..Len(df[t]) :
            (i < j /\ IsErrorRow(df[t][i])) => IsErrorRow(df[t][j])

\* C7: an accepted batch embeds the job description exactly once.
C7_JobDescEmbeddedOnce ==
    \A t \in Threads : Accepted(t) => encodeCalls[t].jd = 1

ScoreSamples == {0 - 10000, 0 - 1, 0, 4999, 5000, 5001, 7499, 7500, 7501, 10000}

TierRule(score, tier) ==
    /\ tier \in Tiers
    /\ (score >= 7500) <=> (tier = "Strong Fit")
    /\ (score >= 5000 /\ score < 7500) <=> (tier = "Moderate Fit")
    /\ (score < 5000) <=> (tier = "Poor Fit")

\* C8: the recommendation is defined for every score with inclusive lower
\* bounds (75 and up Strong, 50 up to 75 Moderate, below 50 Poor), and
\* every scored row carries the tier of its score.
C8_TierOfScore ==
    /\ \A s \in ScoreSamples : TierRule(s, Recommendation(s))
    /\ \A t \in Threads : \A i \in Rows(t) :
           ~IsErrorRow(results[t][i]) =>
               TierRule(results[t][i].Score, results[t][i].Recommendation)

C8_Witness ==
    \E t \in Threads : \E i, j \in Rows(t) :
        /\ results[t][i].Score = 7500 /\ results[t][i].Recommendation = "Strong Fit"
        /\ results[t][j].Score = 5000 /\ results[t][j].Recommendation = "Moderate Fit"

\* C9: the top score of the summary is the score of the first returned row
\* and the maximum over all rows, and the count is the number of rows,
\* error rows included.
C9_SummaryOfFrame ==
    \A t \in Threads : Accepted(t) =>
        /\ response[t].top_score = df[t][1].Score
        /\ \A i \in Rows(t) : results[t][i].Score <= response[t].top_score
        /\ response[t].count = Len(results[t])
        /\ response[t].count = Len(req[t].contents.v)

C9_Witness ==
    \E t \in Threads :
        /\ Accepted(t)
        /\ response[t].count >= 2
        /\ response[t].top_score = 9100
        /\ results[t][1].Score < results[t][2].Score
        /\ IsErrorRow(results[t][1])

\* C10: with two requests in flight, every scored row of a request was
\* computed from the bytes that request uploaded for that document.
C10_ScoredFromOwnBytes ==
    \A t \in Threads : \A i \in Rows(t) :
        (Scorable(req[t], i) /\ ~IsErrorRow(results[t][i]))
            => results[t][i].Score = OwnScore(req[t], i)

====
